---- MODULE Spec2Model ----
(***************************************************************************)
(* The Spotify token refresh service of RunBeat's backend                  *)
(* (backend/app/services/token_refresh_service.py) as a state machine.     *)
(*                                                                         *)
(* The service runs on one asyncio event loop: a coroutine runs without    *)
(* interruption from one await to the next.  Every action below is one     *)
(* such stretch of code: it begins where a task is resumed (a timer fires, *)
(* a request arrives, an HTTP response comes back) and ends at the task's  *)
(* next await or at its return.  The provider call of the executor         *)
(* (spotipy's refresh_access_token) is synchronous: it blocks the loop, so *)
(* while a task stands at "call" no other task takes a step (LoopFree).    *)
(* A task at "done" has returned; delivering the return (to the driver, to *)
(* the HTTP caller) is the loop's next step.                               *)
(*                                                                         *)
(* Time is counted in minutes.  The clock may advance while a task waits   *)
(* at an await, so a response may arrive any time later; the driver runs a *)
(* due job at some moment not before its fire time.  The application calls *)
(* start_scheduler once at startup and stop_scheduler once at shutdown     *)
(* (main.py); a start_scheduler that raises leaves the application serving *)
(* without a driver.  stop_scheduler is synchronous: it returns before any  *)
(* task in flight takes another step.  What the driver's shutdown does to  *)
(* the job coroutines it has started depends on the driver's version: it   *)
(* cancels them, or leaves them to run on; a manual cycle is not a job of  *)
(* the driver and always runs on.                                          *)
(***************************************************************************)
EXTENDS Integers, Sequences, FiniteSets, TLC

(***************************************************************************)
(* Bounds of the model.                                                    *)
(***************************************************************************)
\* the clock stops at MaxTime
MaxTime == 17
\* the clock advances in steps of ClockStep minutes
ClockStep == 5
\* a suspension of the process lasts SuspendMinutes; the clock of the
\* specification with suspensions stops at MaxLateTime
SuspendMinutes == 17
MaxLateTime == 37

(***************************************************************************)
(* Program constants.                                                      *)
(***************************************************************************)
\* start_scheduler: IntervalTrigger(minutes=15)
INTERVAL_MINUTES == 15
\* start_scheduler: misfire_grace_time=300 seconds
MISFIRE_GRACE_MINUTES == 5
\* _schedule_retry: retry_time = datetime.now() + timedelta(minutes=5)
RETRY_DELAY_MINUTES == 5
\* _find_expiring_tokens: cutoff_time = utcnow() + timedelta(minutes=45)
EXPIRY_HORIZON_MINUTES == 45
\* _refresh_single_token: expires_in defaults to 3600 seconds
DEFAULT_LIFETIME_MINUTES == 60
\* _find_expiring_tokens: "pageSize": 1000
PAGE_SIZE == 1000
\* settings.SPOTIFY_TOKEN_REFRESH_MARGIN: 300 seconds
REFRESH_MARGIN_MINUTES == 5
\* validate_user_id: len(user_id) < 20, len(user_id) > 36
USER_ID_MIN_LENGTH == 20
USER_ID_MAX_LENGTH == 36

\* the principals (device or user ids) that may own a credential record
Principals == {"p1", "p2"}
\* the requests to the admin route, which call manual_refresh_cycle; each is
\* answered once
ManualTasks == {"m1", "m2"}
CycleTasks == {"sched"} \cup ManualTasks
\* a retry invocation is named by its principal (job id retry_refresh_<id>,
\* max_instances=1)
Tasks == CycleTasks \cup Principals
\* the requests to the routes of routes/spotify.py whose handlers run over
\* several awaits; the model follows one request at a time on each
RouteTasks == {"get", "refresh"}

\* Python's None, for an absent token or device id
None == "None"
\* Python's None, for an absent timestamp
NoTime == -1

VARIABLES
    now,             \* wall clock, minutes
    phase,           \* the application: "startup", "serving" or "shutdown"
    scheduler,       \* self.scheduler: "none" or "running"
    next_run,        \* the interval job's next fire time, NoTime without a driver
    jobs,            \* the driver's one-shot retry jobs: records [id, run_date]
    is_running,      \* self.is_running
    stats,           \* self.stats (TokenRefreshStats)
    failed_devices,  \* self.failed_devices: device_id -> failure time
    store,           \* the credential store: principal -> record, for those that have one
    pc,              \* where each task stands
    queue,           \* per cycle task: the candidates of expiring_tokens not yet iterated
    cur,             \* per task: device_id and token_data of the executor call
    pending,         \* per task: the record the executor call is writing
    last,            \* per task: where its latest executor call (or retry read) ended
    result           \* per cycle task: what the invocation returned; for the
                     \* client of the routes: their latest response

vars == <<now, phase, scheduler, next_run, jobs, is_running, stats, failed_devices, store,
          pc, queue, cur, pending, last, result>>

(***************************************************************************)
(* Helpers.                                                                *)
(***************************************************************************)
\* dict.pop(key, None)
Pop(d, k) == [x \in (DOMAIN d) \ {k} |-> d[x]]
\* d[key] = value
Put(d, k, v) == [x \in (DOMAIN d) \cup {k} |-> IF x = k THEN v ELSE d[x]]

\* store iteration order of the principals (Firestore lists documents by name)
PrincipalOrder == <<"p1", "p2">>

RECURSIVE SelectSeqBy(_, _)
\* the elements of sequence s that are in set S, in the order of s
SelectSeqBy(s, S) ==
    IF s = <<>> THEN <<>>
    ELSE (IF Head(s) \in S THEN <<Head(s)>> ELSE <<>>) \o SelectSeqBy(Tail(s), S)

\* the event loop is free: no task is inside a blocking call or handing
\* over its return
LoopFree == \A t \in Tasks : pc[t] \notin {"call", "done"}

\* the retry jobs of principal p
JobsOf(p) == {j \in jobs : j.id = p}

(***************************************************************************)
(* TokenRefreshStats.                                                      *)
(***************************************************************************)
\* TokenRefreshStats.__init__
InitStats ==
    [total_refreshes |-> 0, successful_refreshes |-> 0, failed_refreshes |-> 0,
     invalid_tokens_cleaned |-> 0, retry_attempts |-> 0,
     last_run_time |-> NoTime, last_error |-> None,
     tokens_checked |-> 0, tokens_requiring_refresh |-> 0]

reset_run_stats_ResetTotals(s) ==
    [s EXCEPT !.tokens_checked = 0, !.tokens_requiring_refresh = 0,
              !.last_error = None, !.total_refreshes = 0]

reset_run_stats_KeepError(s) ==
    [s EXCEPT !.tokens_checked = 0, !.tokens_requiring_refresh = 0]

\* TokenRefreshStats.reset_run_stats
reset_run_stats(s) ==
    [s EXCEPT !.tokens_checked = 0, !.tokens_requiring_refresh = 0,
              !.last_error = None]

(***************************************************************************)
(* The initial state: the service object after construction, before        *)
(* start_scheduler; the store holds any mix of records.                    *)
(***************************************************************************)
\* a complete record that falls inside the expiry horizon for the whole run
ExpiringRecord == [access_token |-> "a0", refresh_token |-> "r0", expires_at |-> 30]
\* documents the scanner cannot use: one of the three fields is absent, or
\* the timestampValue is in a form datetime.fromisoformat rejects
BadTime == -2
MissingExpiry == [access_token |-> "a0", refresh_token |-> "r0", expires_at |-> NoTime]
MissingRefresh == [access_token |-> "a0", refresh_token |-> None, expires_at |-> 30]
MissingAccess == [access_token |-> None, refresh_token |-> "r0", expires_at |-> 30]
UnparsableExpiry == [access_token |-> "a0", refresh_token |-> "r0", expires_at |-> BadTime]
IncompleteRecords == {MissingExpiry, MissingRefresh, MissingAccess, UnparsableExpiry}
InitRecords == {ExpiringRecord} \cup IncompleteRecords
\* the stores the service may find: any subset of the principals has a
\* document, and the first document of the listing may be an unusable one
InitStores ==
    {sto \in UNION {[D -> InitRecords] : D \in SUBSET Principals} :
        "p2" \in DOMAIN sto => sto["p2"] = ExpiringRecord}
\* an empty dict
EmptyMap == [x \in {} |-> 0]
\* a task that is not inside an executor call
NoCur == [device_id |-> None, refresh_token |-> None]
NoPending == [access_token |-> None, refresh_token |-> None, expires_at |-> NoTime]
\* the client of the routes has had no response
NoResponse == [route |-> None, user_id |-> None, status |-> None]

Init ==
    /\ now = 0
    /\ phase = "startup"
    /\ scheduler = "none"
    /\ next_run = NoTime
    /\ jobs = {}
    /\ is_running = FALSE
    /\ stats = InitStats
    /\ failed_devices = EmptyMap
    /\ store \in InitStores
    /\ pc = [t \in Tasks \cup RouteTasks |-> "idle"]
    /\ queue = [c \in CycleTasks |-> <<>>]
    /\ cur = [t \in Tasks \cup RouteTasks |-> NoCur]
    /\ pending = [t \in Tasks \cup RouteTasks |-> NoPending]
    /\ last = [t \in Tasks |-> None]
    /\ result = [c \in CycleTasks \cup {"client"} |->
                    IF c = "client" THEN NoResponse ELSE None]

(***************************************************************************)
(* The environment: the clock.                                             *)
(***************************************************************************)
Tick ==
    /\ LoopFree
    /\ phase # "startup"
    /\ now + ClockStep <= MaxTime
    /\ now' = now + ClockStep
    /\ UNCHANGED <<phase, scheduler, next_run, jobs, is_running, stats,
                   failed_devices, store, pc, queue, cur, pending, last, result>>

\* the process is busy or suspended for SuspendMinutes: no task and no timer
\* of the driver runs meanwhile
Suspend ==
    /\ LoopFree
    /\ phase = "serving"
    /\ now + SuspendMinutes <= MaxLateTime
    /\ now' = now + SuspendMinutes
    /\ UNCHANGED <<phase, scheduler, next_run, jobs, is_running, stats,
                   failed_devices, store, pc, queue, cur, pending, last, result>>

(***************************************************************************)
(* Lifecycle of the driver.                                                *)
(***************************************************************************)
\* start_scheduler (lines 86-109): a second start is refused with a warning;
\* the interval job first fires one interval after the start
start_scheduler ==
    IF scheduler # "none"
    THEN UNCHANGED <<scheduler, next_run>>
    ELSE /\ scheduler' = "running"
         /\ next_run' = now + INTERVAL_MINUTES

\* the application's startup handler (main.py lines 50-65): start_scheduler
\* is called once, before any request is served; when it raises, the
\* application serves without a scheduler driver
startup_event(started) ==
    /\ phase = "startup"
    /\ phase' = "serving"
    /\ IF started THEN start_scheduler ELSE UNCHANGED <<scheduler, next_run>>
    /\ UNCHANGED <<now, jobs, is_running, stats, failed_devices, store,
                   pc, queue, cur, pending, last, result>>

\* the coroutines the driver runs as jobs: the interval job's cycle and the
\* retries
JobTasks == {"sched"} \cup Principals

\* the driver cancels the job coroutines in flight: each one ends at the
\* await it stands at, CancelledError passing the except Exception clauses
\* (lines 192, 237, 276); the cycle's finally clause runs (line 282)
CancelJobs ==
    /\ pc' = [t \in DOMAIN pc |-> IF t \in JobTasks THEN "idle" ELSE pc[t]]
    /\ cur' = [t \in DOMAIN cur |-> IF t \in JobTasks THEN NoCur ELSE cur[t]]
    /\ pending' = [t \in DOMAIN pending |-> IF t \in JobTasks THEN NoPending ELSE pending[t]]
    /\ last' = [t \in Tasks |-> IF t \in JobTasks THEN None ELSE last[t]]
    /\ queue' = [queue EXCEPT !["sched"] = <<>>]
    /\ is_running' = IF pc["sched"] # "idle" THEN FALSE ELSE is_running
    /\ UNCHANGED result

\* stop_scheduler (lines 150-160): shutdown(wait=True) empties the job store
\* and, by the driver's choice, cancels the jobs in flight; self.scheduler =
\* None
stop_scheduler(cancel) ==
    IF scheduler = "none"
    THEN UNCHANGED <<scheduler, next_run, jobs, is_running, pc, queue, cur, pending,
                     last, result>>
    ELSE /\ scheduler' = "none"
         /\ next_run' = NoTime
         /\ jobs' = {}
         /\ IF cancel
            THEN CancelJobs
            ELSE UNCHANGED <<is_running, pc, queue, cur, pending, last, result>>

\* the application's shutdown handler (main.py lines 67-77)
shutdown_event ==
    /\ LoopFree
    /\ phase = "serving"
    /\ phase' = "shutdown"
    /\ \E cancel \in BOOLEAN : stop_scheduler(cancel)
    /\ UNCHANGED <<now, stats, failed_devices, store>>

(***************************************************************************)
(* The retry coordinator.                                                  *)
(***************************************************************************)
\* scheduler.remove_job(retry_job_id) inside try/except: pass
remove_job(js, p) == {j \in js : j.id # p}

\* scheduler.add_job(..., trigger="date", run_date=retry_time, id=retry_job_id)
add_job(js, p, run_date) == js \cup {[id |-> p, run_date |-> run_date]}

schedule_retry_NoRemove(p) ==
    IF scheduler = "none"
    THEN jobs
    ELSE add_job(jobs, p, now + RETRY_DELAY_MINUTES)

schedule_retry_IntervalDelay(p) ==
    IF scheduler = "none"
    THEN jobs
    ELSE add_job(remove_job(jobs, p), p, now + 3 * RETRY_DELAY_MINUTES)

schedule_retry_NoDriverCheck(p) ==
    add_job(remove_job(jobs, p), p, now + RETRY_DELAY_MINUTES)

\* _schedule_retry(device_id): the job store after the call
schedule_retry(p) ==
    IF scheduler = "none"
    THEN jobs
    ELSE add_job(remove_job(jobs, p), p, now + RETRY_DELAY_MINUTES)

(***************************************************************************)
(* Error texts.  The cycle tells a permanent rejection from a transient    *)
(* failure by searching the exception text (line 246-247); a text is       *)
(* modelled by the set of the searched-for fragments it contains.          *)
(***************************************************************************)
\* "Invalid refresh token for device <id>, tokens cleaned up" (line 424)
MsgInvalidCleaned == {"invalid refresh token"}
\* the text of an exception of the provider call that names the OAuth error
\* invalid_grant and is not a SpotifyException with http_status 400: it is
\* re-raised as it is (line 437) or as "Spotify API error: ..." (line 426)
MsgInvalidGrant == {"invalid_grant"}
\* "Firebase error during token refresh: ..." (line 429)
MsgFirebase == {}
\* "Spotify API error: ..." for a SpotifyException other than 400 invalid_grant
MsgSpotifyApi == {}
\* a timeout or other exception of the provider call, "Invalid token response
\* from Spotify" (line 389)
MsgOther == {}

\* is_invalid_token (line 247), on the lower-cased text
is_invalid_token(msg) ==
    "invalid_grant" \in msg \/ "invalid refresh token" \in msg

(***************************************************************************)
(* The expiry scanner.                                                     *)
(***************************************************************************)
\* the documents of the list-all response, in store order: the first page
\* of pageSize documents (line 298); the response's nextPageToken is not
\* followed, so documents past the first page are not scanned.  With the
\* principals of this model the first page holds the whole collection.
Documents(sto) ==
    LET all == SelectSeqBy(PrincipalOrder, DOMAIN sto)
    IN  SubSeq(all, 1, IF Len(all) <= PAGE_SIZE THEN Len(all) ELSE PAGE_SIZE)

HasRequiredFields_ExpiryOnly(rec) == rec.expires_at # NoTime

\* all([expires_at_str, refresh_token, access_token]) (line 325)
HasRequiredFields(rec) ==
    /\ rec.expires_at # NoTime
    /\ rec.refresh_token # None
    /\ rec.access_token # None

\* datetime.fromisoformat(expires_at_str.rstrip("Z")) returns (line 333); when
\* it raises, the handler of lines 350-356 moves on to the next document
ExpiryParses(rec) == rec.expires_at # BadTime

ExpiresSoon_Strict(rec, t) == rec.expires_at < t + EXPIRY_HORIZON_MINUTES

\* expires_at <= cutoff_time, cutoff_time = utcnow() + 45 minutes (line 311, 336)
ExpiresSoon(rec, t) == rec.expires_at <= t + EXPIRY_HORIZON_MINUTES

\* the keys of expiring_tokens, in insertion order (lines 313-348)
ExpiringDevices(sto, t) ==
    SelectSeqBy(Documents(sto),
                {p \in DOMAIN sto : /\ HasRequiredFields(sto[p])
                                     /\ ExpiryParses(sto[p])
                                     /\ ExpiresSoon(sto[p], t)})

\* the token_data the executor is given for p: expiring_tokens[device_id]
\* (lines 337-341), the result of get_spotify_tokens (lines 155-161)
TokenData(sto, p) ==
    [device_id |-> p,
     refresh_token |-> IF p \in DOMAIN sto THEN sto[p].refresh_token ELSE None]

\* expiring_tokens.items(), in insertion order
ExpiringTokens(sto, t) ==
    LET devs == ExpiringDevices(sto, t)
    IN  [i \in 1..Len(devs) |-> TokenData(sto, devs[i])]

(***************************************************************************)
(* The cycle orchestrator: _refresh_expiring_tokens and                    *)
(* manual_refresh_cycle.                                                   *)
(***************************************************************************)
EnterCycle_NoGuard(c) ==
    /\ is_running' = TRUE
    /\ stats' = [reset_run_stats(stats) EXCEPT !.last_run_time = now]
    /\ pc' = [pc EXCEPT ![c] = "scan"]
    /\ UNCHANGED result

EnterCycle_ResetFirst(c) ==
    /\ stats' = [reset_run_stats(stats) EXCEPT !.last_run_time = now]
    /\ IF is_running
       THEN /\ pc' = [pc EXCEPT ![c] = "done"]
            /\ result' = [result EXCEPT ![c] = "skipped"]
            /\ UNCHANGED is_running
       ELSE /\ is_running' = TRUE
            /\ pc' = [pc EXCEPT ![c] = "scan"]
            /\ UNCHANGED result

\* _refresh_expiring_tokens up to its first await (lines 207-219): the
\* is_running guard, then Idle -> Running
EnterCycle(c) ==
    IF is_running
    THEN /\ pc' = [pc EXCEPT ![c] = "done"]
         /\ result' = [result EXCEPT ![c] = "skipped"]
         /\ UNCHANGED <<is_running, stats>>
    ELSE /\ is_running' = TRUE
         /\ stats' = [reset_run_stats(stats) EXCEPT !.last_run_time = now]
         /\ pc' = [pc EXCEPT ![c] = "scan"]
         /\ UNCHANGED result

CoalescedRunTime_Replay(nr, t) == nr

\* the latest fire time of the interval job that is not after t: with
\* coalesce=True the driver runs the job once for all the fire times it missed
CoalescedRunTime(nr, t) == nr + ((t - nr) \div INTERVAL_MINUTES) * INTERVAL_MINUTES

\* the interval job is due and the driver processes it (lines 98-106): the
\* run is dropped when it is later than misfire_grace_time, skipped when the
\* job's previous run has not returned (max_instances=1), and otherwise
\* _refresh_expiring_tokens starts
ScheduledFire ==
    /\ LoopFree
    /\ scheduler = "running"
    /\ next_run <= now
    /\ LET run_time == CoalescedRunTime(next_run, now)
       IN  /\ next_run' = run_time + INTERVAL_MINUTES
           /\ IF pc["sched"] # "idle"
              THEN \* max_instances=1: the run is not submitted
                   UNCHANGED <<is_running, stats, pc, result>>
              ELSE IF now - run_time > MISFIRE_GRACE_MINUTES
              THEN \* the driver reports the run as missed
                   /\ result' = [result EXCEPT !["sched"] = "missed"]
                   /\ UNCHANGED <<is_running, stats, pc>>
              ELSE EnterCycle("sched")
    /\ UNCHANGED <<now, phase, scheduler, jobs, failed_devices, store, queue, cur,
                   pending, last>>

\* manual_refresh_cycle up to its first await (lines 447-456)
ManualTrigger(m) ==
    /\ LoopFree
    /\ phase = "serving"
    /\ pc[m] = "idle"
    /\ IF is_running
       THEN /\ pc' = [pc EXCEPT ![m] = "done"]
            /\ result' = [result EXCEPT ![m] = "error"]
            /\ UNCHANGED <<is_running, stats>>
       ELSE EnterCycle(m)
    /\ UNCHANGED <<now, phase, next_run, scheduler, jobs, failed_devices, store, queue, cur,
                   pending, last>>

\* the rest of _refresh_expiring_tokens once the loop is over or there is
\* nothing to refresh: finally: is_running = False (line 282); a manual caller
\* gets status "success" (line 458)
FinishCycle_StayRunning(c) ==
    /\ is_running' = is_running
    /\ pc' = [pc EXCEPT ![c] = "done"]
    /\ result' = [result EXCEPT ![c] = IF c \in ManualTasks THEN "success" ELSE "completed"]
    /\ queue' = [queue EXCEPT ![c] = <<>>]
    /\ cur' = [cur EXCEPT ![c] = NoCur]
    /\ last' = [last EXCEPT ![c] = None]

FinishCycle(c) ==
    /\ is_running' = FALSE
    /\ pc' = [pc EXCEPT ![c] = "done"]
    /\ result' = [result EXCEPT ![c] = IF c \in ManualTasks THEN "success" ELSE "completed"]
    /\ queue' = [queue EXCEPT ![c] = <<>>]
    /\ cur' = [cur EXCEPT ![c] = NoCur]
    /\ last' = [last EXCEPT ![c] = None]

\* the for loop takes the next candidate and enters _refresh_single_token
\* (lines 229-231, 379-386)
NextCandidate(c, items) ==
    /\ cur' = [cur EXCEPT ![c] = Head(items)]
    /\ queue' = [queue EXCEPT ![c] = Tail(items)]
    /\ last' = [last EXCEPT ![c] = None]
    /\ pc' = [pc EXCEPT ![c] = "call"]
    /\ UNCHANGED <<is_running, result>>

ScanReturn_CountCandidates(c, listing) ==
    /\ LoopFree
    /\ pc[c] = "scan"
    /\ IF listing = "ok"
       THEN LET expiring_tokens == ExpiringTokens(store, now)
                checked == [stats EXCEPT !.tokens_checked = Len(expiring_tokens)]
            IN  IF expiring_tokens = <<>>
                THEN /\ stats' = checked
                     /\ FinishCycle(c)
                ELSE /\ stats' = [checked EXCEPT !.tokens_requiring_refresh =
                                                      Len(expiring_tokens)]
                     /\ NextCandidate(c, expiring_tokens)
       ELSE /\ stats' = stats
            /\ FinishCycle(c)
    /\ UNCHANGED <<now, phase, next_run, scheduler, jobs, failed_devices, store, pending>>

\* the list-all response arrives (lines 301-368, then 221-231)
ScanReturn(c, listing) ==
    /\ LoopFree
    /\ pc[c] = "scan"
    /\ IF listing = "ok"
       THEN LET expiring_tokens == ExpiringTokens(store, now)
                checked == [stats EXCEPT !.tokens_checked = Len(Documents(store))]
            IN  IF expiring_tokens = <<>>
                THEN /\ stats' = checked
                     /\ FinishCycle(c)
                ELSE /\ stats' = [checked EXCEPT !.tokens_requiring_refresh =
                                                      Len(expiring_tokens)]
                     /\ NextCandidate(c, expiring_tokens)
       ELSE \* a non-200 response or an exception: return {}
            /\ stats' = stats
            /\ FinishCycle(c)
    /\ UNCHANGED <<now, phase, next_run, scheduler, jobs, failed_devices, store, pending>>

SleepReturn_AbortOnFailure(c) ==
    /\ LoopFree
    /\ pc[c] = "sleep"
    /\ IF queue[c] = <<>> \/ last[c] # "stored"
       THEN FinishCycle(c)
       ELSE NextCandidate(c, queue[c])
    /\ UNCHANGED <<now, phase, next_run, scheduler, jobs, stats, failed_devices, store, pending>>

\* asyncio.sleep(1) is over (line 267): the next candidate, or the end
SleepReturn(c) ==
    /\ LoopFree
    /\ pc[c] = "sleep"
    /\ IF queue[c] = <<>>
       THEN FinishCycle(c)
       ELSE NextCandidate(c, queue[c])
    /\ UNCHANGED <<now, phase, next_run, scheduler, jobs, stats, failed_devices, store, pending>>

\* the invocation's return has been delivered: the driver releases the job's
\* instance, the admin route sends the response (admin.py lines 63-68)
CycleReturned(c) ==
    /\ pc[c] = "done"
    /\ pc' = [pc EXCEPT ![c] = IF c \in ManualTasks THEN "closed" ELSE "idle"]
    /\ result' = [result EXCEPT ![c] = None]
    /\ UNCHANGED <<now, phase, next_run, scheduler, jobs, is_running, stats, failed_devices,
                   store, queue, cur, pending, last>>

(***************************************************************************)
(* What the caller does with the executor's outcome.  exc tells whether    *)
(* _refresh_single_token raised and with what text; st is self.stats as    *)
(* the executor left it; path names the place where the executor ended:    *)
(*   "stored"          it returned after the upsert (line 410)             *)
(*   "store_failed"    the upsert raised FirebaseError (line 429)          *)
(*   "deleted"         invalid_grant, record deleted (line 424)            *)
(*   "delete_failed"   invalid_grant, the delete raised FirebaseError      *)
(*   "rejected"        invalid_grant in the text of an exception the       *)
(*                     executor does not take for a rejection (lines 426,  *)
(*                     437): nothing is deleted                            *)
(*   "provider_error"  any other failure of the provider call              *)
(***************************************************************************)
\* _refresh_single_token returned normally
Returned == [raised |-> FALSE, text |-> {}]
\* _refresh_single_token raised Exception(msg)
Raised(msg) == [raised |-> TRUE, text |-> msg]

CycleStats_TotalOnSuccessOnly(exc, st) ==
    IF ~exc.raised
    THEN [st EXCEPT !.successful_refreshes = @ + 1, !.total_refreshes = @ + 1]
    ELSE [st EXCEPT !.failed_refreshes = @ + 1]

\* the cycle's counters after one candidate (lines 232, 243, 264)
CycleStats(exc, st) ==
    IF ~exc.raised
    THEN [st EXCEPT !.successful_refreshes = @ + 1, !.total_refreshes = @ + 1]
    ELSE [st EXCEPT !.failed_refreshes = @ + 1, !.total_refreshes = @ + 1]

\* the cycle decides whether the failure is retried (lines 246-249)
Retryable(exc) == exc.raised /\ ~is_invalid_token(exc.text)

CycleFailedDevices_Deferred(p, exc) ==
    IF ~exc.raised THEN Pop(failed_devices, p) ELSE failed_devices

CycleFailedDevices_KeepOnSuccess(p, exc) ==
    IF Retryable(exc) THEN Put(failed_devices, p, now) ELSE failed_devices

\* self.failed_devices after one candidate of the cycle (lines 235, 251)
CycleFailedDevices(p, exc) ==
    IF ~exc.raised THEN Pop(failed_devices, p)
    ELSE IF Retryable(exc) THEN Put(failed_devices, p, now)
    ELSE failed_devices

CycleJobs_NoRetry(p, exc) == jobs

\* the job store after one candidate of the cycle (line 252)
CycleJobs(p, exc) == IF Retryable(exc) THEN schedule_retry(p) ELSE jobs

CycleAfterExec_NoDelay(c, path, exc, st) ==
    LET p == cur[c].device_id
    IN  /\ stats' = CycleStats(exc, st)
        /\ failed_devices' = CycleFailedDevices(p, exc)
        /\ jobs' = CycleJobs(p, exc)
        /\ last' = [last EXCEPT ![c] = path]
        /\ pc' = [pc EXCEPT ![c] = IF last[c] = None THEN "call" ELSE "sleep"]
        /\ UNCHANGED cur

\* the cycle's loop body after the executor call (lines 232-267), up to the
\* sleep between candidates
CycleAfterExec(c, path, exc, st) ==
    LET p == cur[c].device_id
    IN  /\ stats' = CycleStats(exc, st)
        /\ failed_devices' = CycleFailedDevices(p, exc)
        /\ jobs' = CycleJobs(p, exc)
        /\ last' = [last EXCEPT ![c] = path]
        /\ pc' = [pc EXCEPT ![c] = "sleep"]
        /\ UNCHANGED cur

RetryStats_CountsTotal(exc, st) ==
    IF ~exc.raised THEN [st EXCEPT !.retry_attempts = @ + 1, !.total_refreshes = @ + 1]
    ELSE st

\* the retry's counters (line 187)
\* variant: an attempt is counted whether or not the refresh succeeded
RetryStats_CountEveryAttempt(exc, st) ==
    [st EXCEPT !.retry_attempts = @ + 1]

RetryStats(exc, st) ==
    IF ~exc.raised THEN [st EXCEPT !.retry_attempts = @ + 1] ELSE st

\* self.failed_devices after the retry (lines 186, 200)
RetryFailedDevices(p, exc) == Pop(failed_devices, p)

RetryJobs_Reschedule(p, exc) == IF exc.raised THEN schedule_retry(p) ELSE jobs

\* the job store after the retry: a failed retry is not rescheduled
\* (lines 198-200)
RetryJobs(p, exc) == jobs

\* _retry_single_device after the executor call (lines 185-200)
RetryAfterExec(p, path, exc, st) ==
    /\ stats' = RetryStats(exc, st)
    /\ failed_devices' = RetryFailedDevices(p, exc)
    /\ jobs' = RetryJobs(p, exc)
    /\ last' = [last EXCEPT ![p] = path]
    /\ pc' = [pc EXCEPT ![p] = "done"]
    /\ cur' = [cur EXCEPT ![p] = NoCur]

AfterExec(t, path, exc, st) ==
    IF t \in CycleTasks THEN CycleAfterExec(t, path, exc, st)
    ELSE RetryAfterExec(t, path, exc, st)

(***************************************************************************)
(* The refresh executor: _refresh_single_token.                            *)
(***************************************************************************)
\* what refresh_access_token can do
ProviderOutcomes ==
    {"ok", "ok_rotated", "bad_response", "invalid_grant", "invalid_grant_other",
     "api_error", "timeout"}

\* the lifetimes (expires_in, in minutes) the provider reports
ProviderLifetimes == {DEFAULT_LIFETIME_MINUTES}

NewRecord_DropRotation(token_data, outcome, expires_in, t) ==
    [access_token |-> "a1",
     refresh_token |-> token_data.refresh_token,
     expires_at |-> t + expires_in]

\* the record the executor writes after a successful provider call
\* (lines 391-404)
NewRecord(token_data, outcome, expires_in, t) ==
    [access_token |-> "a1",
     refresh_token |-> IF outcome = "ok_rotated" THEN "r1" ELSE token_data.refresh_token,
     expires_at |-> t + expires_in]

\* the provider call and what follows up to the next await (lines 386-426)
ExecCall(t, outcome, expires_in) ==
    /\ pc[t] = "call"
    /\ IF outcome \in {"ok", "ok_rotated"}
       THEN \* await firebase_client.store_spotify_tokens(...)
            /\ pending' = [pending EXCEPT ![t] = NewRecord(cur[t], outcome, expires_in, now)]
            /\ pc' = [pc EXCEPT ![t] = "store"]
            /\ UNCHANGED <<stats, failed_devices, jobs, last, cur>>
       ELSE IF outcome = "invalid_grant"
       THEN \* SpotifyException, http_status 400, invalid_grant:
            \* await firebase_client.delete_spotify_tokens(device_id)
            /\ pc' = [pc EXCEPT ![t] = "delete"]
            /\ UNCHANGED <<stats, failed_devices, jobs, last, cur, pending>>
       ELSE IF outcome = "invalid_grant_other"
       THEN \* an exception naming invalid_grant that line 414 does not match
            /\ AfterExec(t, "rejected", Raised(MsgInvalidGrant), stats)
            /\ UNCHANGED pending
       ELSE /\ AfterExec(t, "provider_error",
                         Raised(IF outcome = "api_error" THEN MsgSpotifyApi
                                ELSE MsgOther), stats)
            /\ UNCHANGED pending
    /\ UNCHANGED <<now, phase, next_run, scheduler, is_running, store, queue, result>>

StoreReturn_StampOnFailure(t, ok) ==
    /\ LoopFree
    /\ pc[t] = "store"
    /\ IF ok
       THEN /\ store' = Put(store, cur[t].device_id, pending[t])
            /\ AfterExec(t, "stored", Returned, stats)
       ELSE /\ store' = IF cur[t].device_id \in DOMAIN store
                        THEN [store EXCEPT ![cur[t].device_id].expires_at =
                                               pending[t].expires_at]
                        ELSE store
            /\ AfterExec(t, "store_failed", Raised(MsgFirebase), stats)
    /\ pending' = [pending EXCEPT ![t] = NoPending]
    /\ UNCHANGED <<now, phase, next_run, scheduler, is_running, queue, result>>

\* the store answers the upsert (lines 399-410, 428-429): a 200 response,
\* or an error response or a timeout of a request the store has not applied
StoreReturn(t, ok) ==
    /\ LoopFree
    /\ pc[t] = "store"
    /\ IF ok
       THEN /\ store' = Put(store, cur[t].device_id, pending[t])
            /\ AfterExec(t, "stored", Returned, stats)
       ELSE /\ store' = store
            /\ AfterExec(t, "store_failed", Raised(MsgFirebase), stats)
    /\ pending' = [pending EXCEPT ![t] = NoPending]
    /\ UNCHANGED <<now, phase, next_run, scheduler, is_running, queue, result>>

\* the upsert gets no response within the client's 30 seconds
\* (firebase_client.py lines 89, 113-115) although the store has applied it:
\* the record is replaced and store_spotify_tokens raises FirebaseError
StoreTimeoutApplied(t) ==
    /\ LoopFree
    /\ pc[t] = "store"
    /\ store' = Put(store, cur[t].device_id, pending[t])
    /\ AfterExec(t, "store_failed", Raised(MsgFirebase), stats)
    /\ pending' = [pending EXCEPT ![t] = NoPending]
    /\ UNCHANGED <<now, phase, next_run, scheduler, is_running, queue, result>>

DeleteReturn_CountOnFailure(t, ok) ==
    /\ LoopFree
    /\ pc[t] = "delete"
    /\ IF ok
       THEN /\ store' = Pop(store, cur[t].device_id)
            /\ AfterExec(t, "deleted", Raised(MsgInvalidCleaned),
                         [stats EXCEPT !.invalid_tokens_cleaned = @ + 1])
       ELSE /\ store' = store
            /\ AfterExec(t, "delete_failed", Raised(MsgFirebase),
                         [stats EXCEPT !.invalid_tokens_cleaned = @ + 1])
    /\ UNCHANGED <<now, phase, next_run, scheduler, is_running, queue, result, pending>>

\* the store answers the delete (lines 421-424, 428-429)
DeleteReturn(t, ok) ==
    /\ LoopFree
    /\ pc[t] = "delete"
    /\ IF ok
       THEN /\ store' = Pop(store, cur[t].device_id)
            /\ AfterExec(t, "deleted", Raised(MsgInvalidCleaned),
                         [stats EXCEPT !.invalid_tokens_cleaned = @ + 1])
       ELSE /\ store' = store
            /\ AfterExec(t, "delete_failed", Raised(MsgFirebase), stats)
    /\ UNCHANGED <<now, phase, next_run, scheduler, is_running, queue, result, pending>>

(***************************************************************************)
(* The retry path: the driver's one-shot jobs and _retry_single_device.    *)
(***************************************************************************)
\* a date job is due: the driver takes it out of the job store and runs
\* _retry_single_device up to its first await (lines 170-174); with
\* max_instances=1 (line 141) the run is skipped while the previous run of
\* the same job id has not returned, and the job is spent all the same
RetryFire(p) ==
    /\ LoopFree
    /\ scheduler = "running"
    /\ \E j \in JobsOf(p) :
          /\ j.run_date <= now
          /\ jobs' = jobs \ {j}
    /\ pc' = IF pc[p] = "idle" THEN [pc EXCEPT ![p] = "read"] ELSE pc
    /\ UNCHANGED <<now, phase, next_run, scheduler, is_running, stats,
                   failed_devices, store, queue, cur, pending, last, result>>

token_data_found_Unchecked(p, ok) == ok

\* get_spotify_tokens returned a record: not (not token_data) (line 176)
token_data_found(p, ok) == ok /\ p \in DOMAIN store

\* the store answers get_spotify_tokens (lines 174-183, 191-200)
RetryReadReturn(p, ok) ==
    /\ LoopFree
    /\ pc[p] = "read"
    /\ IF token_data_found(p, ok)
       THEN \* token_data found: enter _refresh_single_token
            /\ cur' = [cur EXCEPT ![p] = TokenData(store, p)]
            /\ pc' = [pc EXCEPT ![p] = "call"]
            /\ last' = [last EXCEPT ![p] = None]
            /\ UNCHANGED failed_devices
       ELSE \* no token data (line 176), or FirebaseError (line 191)
            /\ failed_devices' = Pop(failed_devices, p)
            /\ pc' = [pc EXCEPT ![p] = "done"]
            /\ last' = [last EXCEPT ![p] = IF ok THEN "absent" ELSE "read_error"]
            /\ UNCHANGED cur
    /\ UNCHANGED <<now, phase, next_run, scheduler, jobs, is_running, stats, store, queue,
                   pending, result>>

\* the driver notes that the run has returned and releases the instance
RetryReturned(p) ==
    /\ pc[p] = "done"
    /\ pc' = [pc EXCEPT ![p] = "idle"]
    /\ last' = [last EXCEPT ![p] = None]
    /\ UNCHANGED <<now, phase, next_run, scheduler, jobs, is_running, stats, failed_devices,
                   store, queue, cur, pending, result>>

(***************************************************************************)
(* The specification.                                                      *)
(***************************************************************************)
Next ==
    \/ Tick
    \/ startup_event(TRUE)
    \/ startup_event(FALSE)
    \/ shutdown_event
    \/ ScheduledFire
    \/ ManualTrigger("m1")
    \/ \E c \in CycleTasks : \E listing \in {"ok", "http_error", "exception"} :
          ScanReturn(c, listing)
    \/ \E c \in CycleTasks : SleepReturn(c)
    \/ \E c \in CycleTasks : CycleReturned(c)
    \/ \E t \in Tasks : \E outcome \in ProviderOutcomes :
          \E expires_in \in ProviderLifetimes : ExecCall(t, outcome, expires_in)
    \/ \E t \in Tasks : \E ok \in BOOLEAN : StoreReturn(t, ok)
    \/ \E t \in Tasks : \E ok \in BOOLEAN : DeleteReturn(t, ok)
    \/ \E p \in Principals : RetryFire(p)
    \/ \E p \in Principals : \E ok \in BOOLEAN : RetryReadReturn(p, ok)
    \/ \E p \in Principals : RetryReturned(p)

\* one request to the admin route, any records in the store
Spec == Init /\ [][Next]_vars

\* two requests to the admin route, at most one record in the store
InitTwoRequests == Init /\ DOMAIN store \subseteq {"p1"}

NextTwoRequests == Next \/ ManualTrigger("m2")

SpecTwoRequests == InitTwoRequests /\ [][NextTwoRequests]_vars

\* the text the cycle's outermost handler records (line 277)
MsgCycleFailed == "Token refresh cycle failed"

\* the provider call of a cycle fails, and the _schedule_retry call of the
\* failure handler (line 252) raises at add_job, after remove_job: the
\* exception leaves the loop before line 264, the outermost handler records
\* it in last_error (lines 276-279), the finally clause ends the cycle
\* (line 282), and a manual caller is told "success" (line 458)
ScheduleRetryRaises(c) ==
    /\ pc[c] = "call"
    /\ scheduler = "running"
    /\ stats' = [stats EXCEPT !.failed_refreshes = @ + 1,
                              !.last_error = MsgCycleFailed]
    /\ failed_devices' = Put(failed_devices, cur[c].device_id, now)
    /\ jobs' = remove_job(jobs, cur[c].device_id)
    /\ FinishCycle(c)
    /\ UNCHANGED <<now, phase, next_run, scheduler, store, pending>>

\* one request to the admin route, any records in the store, and a driver
\* whose add_job may raise
NextCycleError == Next \/ \E c \in CycleTasks : ScheduleRetryRaises(c)

SpecCycleError == Init /\ [][NextCycleError]_vars

\* one request to the admin route, at most one record in the store, and
\* store writes whose timeout hides a write that was applied
InitWriteTimeout == Init /\ DOMAIN store \subseteq {"p1"}

NextWriteTimeout == Next \/ \E t \in Tasks : StoreTimeoutApplied(t)

SpecWriteTimeout == InitWriteTimeout /\ [][NextWriteTimeout]_vars

\* the program in a process that may be suspended: fire times of the interval
\* job pass while nothing runs, with one principal in the store
InitSuspended == Init /\ DOMAIN store \subseteq {"p1"}

NextSuspended == Next \/ Suspend

SpecSuspended == InitSuspended /\ [][NextSuspended]_vars

(***************************************************************************)
(* The routes of app/api/v1/routes/spotify.py: store, get, delete and      *)
(* refresh of one user's tokens.  A request carries a user id, a text.     *)
(***************************************************************************)
\* the characters of [a-zA-Z0-9] that occur in the ids of the model
AlnumChars == {"a", "Z", "7"}
Repeat(c, n) == [i \in 1..n |-> c]
\* the ids that requests carry, by name, and the text of each: the two
\* principals have ids of the shortest and of the longest accepted length
RequestIds == Principals \cup {"short", "long", "dashed", "at", "newline"}
Text(u) ==
    CASE u = "p1" -> Repeat("a", USER_ID_MIN_LENGTH)
      [] u = "p2" -> Repeat("Z", USER_ID_MAX_LENGTH - 1) \o <<"7">>
      [] u = "short" -> Repeat("a", USER_ID_MIN_LENGTH - 1)
      [] u = "long" -> Repeat("7", USER_ID_MAX_LENGTH + 1)
      [] u = "dashed" -> Repeat("a", 12) \o <<"-">> \o Repeat("Z", 12)
      [] u = "at" -> <<"@">> \o Repeat("a", 27)
      [] u = "newline" -> Repeat("a", USER_ID_MIN_LENGTH) \o <<"\n">>

\* re.match(r'^[a-zA-Z0-9]+$', s) is not None: in Python $ matches at the
\* end of the text and also just before a newline that ends it
MatchesAlnumPattern(s) ==
    \E n \in {Len(s)} \cup {Len(s) - 1} :
        /\ n >= 1
        /\ \A i \in 1..n : s[i] \in AlnumChars
        /\ n = Len(s) \/ s[Len(s)] = "\n"

\* validate_user_id (lines 47-56)
validate_user_id(u) ==
    LET user_id == Text(u)
    IN  /\ ~(user_id = <<>> \/ Len(user_id) < USER_ID_MIN_LENGTH
                            \/ Len(user_id) > USER_ID_MAX_LENGTH)
        /\ MatchesAlnumPattern(user_id)

\* what validate_user_id returns for each id
Validated == [u \in RequestIds |-> validate_user_id(u)]

\* a response of route r to a request for id u
Response(r, u, status) == [route |-> r, user_id |-> u, status |-> status]

\* an atomic handler answers
Answer(r, u, status) ==
    /\ result' = [result EXCEPT !["client"] = Response(r, u, status)]
    /\ UNCHANGED <<pc, cur, pending>>

\* the handler of route task r answers and ends
Respond(r, u, status) ==
    /\ result' = [result EXCEPT !["client"] = Response(r, u, status)]
    /\ pc' = [pc EXCEPT ![r] = "idle"]
    /\ cur' = [cur EXCEPT ![r] = NoCur]
    /\ pending' = [pending EXCEPT ![r] = NoPending]

\* the lifetimes a client states when it stores tokens, minutes: one that
\* is_token_expired counts as expired at once
ClientLifetimes == {REFRESH_MARGIN_MINUTES}

\* POST /users/{user_id}/spotify-tokens (lines 58-98): the write to the
\* store succeeds or raises FirebaseError
store_spotify_tokens(u, expires_in, ok) ==
    /\ LoopFree
    /\ phase = "serving"
    /\ IF ~Validated[u]
       THEN /\ Answer("store", u, "400")
            /\ store' = store
       ELSE IF ok
       THEN /\ store' = Put(store, u, [access_token |-> "a2", refresh_token |-> "r2",
                                       expires_at |-> now + expires_in])
            /\ Answer("store", u, "200")
       ELSE /\ store' = store
            /\ Answer("store", u, "500")
    /\ UNCHANGED <<now, phase, scheduler, next_run, jobs, is_running, stats,
                   failed_devices, queue, last>>

delete_spotify_tokens_KeepRecord(u, ok) ==
    /\ LoopFree
    /\ phase = "serving"
    /\ IF ~Validated[u]
       THEN Answer("delete", u, "400")
       ELSE IF ok
       THEN Answer("delete", u, "200")
       ELSE Answer("delete", u, "500")
    /\ UNCHANGED <<now, phase, scheduler, next_run, jobs, is_running, stats,
                   failed_devices, store, queue, last>>

\* DELETE /users/{user_id}/spotify-tokens (lines 170-200); the store answers
\* a delete of an absent document like one of a present document
delete_spotify_tokens(u, ok) ==
    /\ LoopFree
    /\ phase = "serving"
    /\ IF ~Validated[u]
       THEN /\ Answer("delete", u, "400")
            /\ store' = store
       ELSE IF ok
       THEN /\ store' = Pop(store, u)
            /\ Answer("delete", u, "200")
       ELSE /\ store' = store
            /\ Answer("delete", u, "500")
    /\ UNCHANGED <<now, phase, scheduler, next_run, jobs, is_running, stats,
                   failed_devices, queue, last>>

\* GET /users/{user_id}/spotify-token up to its first await (lines 109-116)
get_spotify_token(u) ==
    /\ LoopFree
    /\ phase = "serving"
    /\ pc["get"] = "idle"
    /\ IF ~Validated[u]
       THEN Respond("get", u, "400")
       ELSE /\ pc' = [pc EXCEPT !["get"] = "read_expiry"]
            /\ cur' = [cur EXCEPT !["get"] = [device_id |-> u, refresh_token |-> None]]
            /\ UNCHANGED <<result, pending>>
    /\ UNCHANGED <<now, phase, scheduler, next_run, jobs, is_running, stats,
                   failed_devices, store, queue, last>>

\* FirebaseClient.is_token_expired (lines 228-266) on a record that has an
\* expires_at: a timestamp that does not parse counts as expired
is_token_expired(rec, t) ==
    IF rec.expires_at = BadTime THEN TRUE
    ELSE t >= rec.expires_at - REFRESH_MARGIN_MINUTES

\* the read of is_token_expired returns (lines 116-128)
ExpiryReadReturn(ok) ==
    /\ LoopFree
    /\ pc["get"] = "read_expiry"
    /\ LET u == cur["get"].device_id
       IN  IF ~ok
           THEN Respond("get", u, "500")
           ELSE IF u \notin DOMAIN store \/ store[u].expires_at = NoTime
           THEN Respond("get", u, "404")
           ELSE /\ pc' = [pc EXCEPT !["get"] = "read_tokens"]
                /\ cur' = [cur EXCEPT !["get"] =
                              [device_id |-> u, refresh_token |-> None,
                               is_expired |-> is_token_expired(store[u], now)]]
                /\ UNCHANGED <<result, pending>>
    /\ UNCHANGED <<now, phase, scheduler, next_run, jobs, is_running, stats,
                   failed_devices, store, queue, last>>

\* the read of get_spotify_tokens returns (lines 128-159); the record may
\* have changed since the first read
TokensReadReturn(ok) ==
    /\ LoopFree
    /\ pc["get"] = "read_tokens"
    /\ LET u == cur["get"].device_id
       IN  IF ~ok
           THEN Respond("get", u, "500")
           ELSE IF u \notin DOMAIN store
           THEN Respond("get", u, "404")
           ELSE IF ~cur["get"].is_expired
           THEN \* the stored token is returned: a field that is absent or
                \* does not parse raises in lines 138-149
                IF store[u].expires_at \in {NoTime, BadTime} \/ store[u].access_token = None
                THEN Respond("get", u, "500")
                ELSE Respond("get", u, "200")
           ELSE IF store[u].refresh_token = None
           THEN \* SpotifyTokenRequest(refresh_token=None) does not validate
                Respond("get", u, "500")
           ELSE \* refresh_spotify_token(refresh_request), up to its await
                /\ pc' = [pc EXCEPT !["get"] = "provider"]
                /\ cur' = [cur EXCEPT !["get"] =
                              [device_id |-> u,
                               refresh_token |-> store[u].refresh_token]]
                /\ UNCHANGED <<result, pending>>
    /\ UNCHANGED <<now, phase, scheduler, next_run, jobs, is_running, stats,
                   failed_devices, store, queue, last>>

\* POST /spotify/refresh-token up to its await (lines 211-242)
refresh_spotify_token(u) ==
    /\ LoopFree
    /\ phase = "serving"
    /\ pc["refresh"] = "idle"
    /\ IF ~Validated[u]
       THEN Respond("refresh", u, "400")
       ELSE /\ pc' = [pc EXCEPT !["refresh"] = "provider"]
            /\ cur' = [cur EXCEPT !["refresh"] = [device_id |-> u, refresh_token |-> "r2"]]
            /\ UNCHANGED <<result, pending>>
    /\ UNCHANGED <<now, phase, scheduler, next_run, jobs, is_running, stats,
                   failed_devices, store, queue, last>>

\* what the provider's token endpoint answers to a route
RouteProviderOutcomes == {"ok", "ok_rotated", "rejected", "timeout"}

\* the provider answers (lines 244-283): any status but 200 raises an
\* HTTPException(400) inside the try block, which its except Exception
\* turns into a 500
ProviderReturn(r, outcome, expires_in) ==
    /\ LoopFree
    /\ pc[r] = "provider"
    /\ IF outcome = "timeout" THEN Respond(r, cur[r].device_id, "408")
       ELSE IF outcome = "rejected" THEN Respond(r, cur[r].device_id, "500")
       ELSE /\ pc' = [pc EXCEPT ![r] = "write"]
            /\ pending' = [pending EXCEPT ![r] = NewRecord(cur[r], outcome, expires_in, now)]
            /\ UNCHANGED <<result, cur>>
    /\ UNCHANGED <<now, phase, scheduler, next_run, jobs, is_running, stats,
                   failed_devices, store, queue, last>>

WriteReturn_FailOnStoreError(r, ok) ==
    /\ LoopFree
    /\ pc[r] = "write"
    /\ store' = IF ok THEN Put(store, cur[r].device_id, pending[r]) ELSE store
    /\ Respond(r, cur[r].device_id, IF ok THEN "200" ELSE "500")
    /\ UNCHANGED <<now, phase, scheduler, next_run, jobs, is_running, stats,
                   failed_devices, queue, last>>

\* the write of the refreshed tokens returns (lines 277-292): a failure is
\* logged and the tokens are returned all the same
WriteReturn(r, ok) ==
    /\ LoopFree
    /\ pc[r] = "write"
    /\ store' = IF ok THEN Put(store, cur[r].device_id, pending[r]) ELSE store
    /\ Respond(r, cur[r].device_id, "200")
    /\ UNCHANGED <<now, phase, scheduler, next_run, jobs, is_running, stats,
                   failed_devices, queue, last>>

\* the routes while the application is serving, with requests of every id;
\* the user p1 has stored tokens before, and the jobs of the scheduler are
\* not followed
InitRoutes == Init /\ DOMAIN store = {"p1"}

RouteIds == RequestIds \ {"p2"}

NextRoutes ==
    \/ startup_event(TRUE)
    \/ \E u \in RouteIds : \E expires_in \in ClientLifetimes : \E ok \in BOOLEAN :
          store_spotify_tokens(u, expires_in, ok)
    \/ \E u \in RouteIds : \E ok \in BOOLEAN : delete_spotify_tokens(u, ok)
    \/ \E u \in RouteIds : get_spotify_token(u)
    \/ \E ok \in BOOLEAN : ExpiryReadReturn(ok)
    \/ \E ok \in BOOLEAN : TokensReadReturn(ok)
    \/ \E u \in RouteIds : refresh_spotify_token(u)
    \/ \E r \in RouteTasks : \E outcome \in RouteProviderOutcomes :
          \E expires_in \in ProviderLifetimes : ProviderReturn(r, outcome, expires_in)
    \/ \E r \in RouteTasks : \E ok \in BOOLEAN : WriteReturn(r, ok)

SpecRoutes == InitRoutes /\ [][NextRoutes]_vars

\* the refresh service next to the delete route: a user deletes the tokens
\* of p1 while the scheduler's jobs run, one principal in the store
NextExternalDelete ==
    Next \/ \E ok \in BOOLEAN : delete_spotify_tokens("p1", ok)

SpecExternalDelete == InitSuspended /\ [][NextExternalDelete]_vars

\* every await of a task returns: the HTTP calls of the store carry a
\* timeout (30 s, 60 s for the list-all call, line 294), asyncio.sleep(1)
\* ends, the provider call is synchronous, and the loop delivers a return
Fairness ==
    /\ \A c \in CycleTasks :
          /\ WF_vars(\E listing \in {"ok", "http_error", "exception"} :
                        ScanReturn(c, listing))
          /\ WF_vars(SleepReturn(c))
          /\ WF_vars(CycleReturned(c))
    /\ \A t \in Tasks :
          /\ WF_vars(\E outcome \in ProviderOutcomes :
                        \E expires_in \in ProviderLifetimes :
                           ExecCall(t, outcome, expires_in))
          /\ WF_vars(\E ok \in BOOLEAN : StoreReturn(t, ok))
          /\ WF_vars(\E ok \in BOOLEAN : DeleteReturn(t, ok))
    /\ \A p \in Principals :
          /\ WF_vars(\E ok \in BOOLEAN : RetryReadReturn(p, ok))
          /\ WF_vars(RetryReturned(p))

\* the two-request specification in which every await returns
SpecFair == SpecTwoRequests /\ Fairness

(***************************************************************************)
(* Vocabulary of the properties.                                           *)
(***************************************************************************)
\* c is executing the cycle body: past the is_running guard, not yet returned
InCycleBody(c) == pc[c] \in {"scan", "call", "store", "delete", "sleep"}

\* the executor paths whose failure the cycle takes for transient
TransientPaths == {"provider_error", "store_failed", "delete_failed"}

\* the executor paths on which the provider has rejected the refresh token
\* as invalid
RejectionPaths == {"deleted", "delete_failed", "rejected"}

\* this step ends an executor call of cycle task c
CycleExecEnds(c) == pc[c] \in {"call", "store", "delete"} /\ pc'[c] = "sleep"

\* the one-shot job _schedule_retry creates for p at time t
RetryJob(p, t) == [id |-> p, run_date |-> t + RETRY_DELAY_MINUTES]

(***************************************************************************)
(* C1.  At most one execution of the cycle body is in progress in every    *)
(* reachable state, whatever the interleaving of scheduled firings and     *)
(* manual_refresh_cycle calls.                                             *)
(***************************************************************************)
C1_SingleFlight ==
    /\ Cardinality({c \in CycleTasks : InCycleBody(c)}) <= 1
    /\ (\E c \in CycleTasks : InCycleBody(c)) => is_running

\* a manual call is turned away while another manual call is in the cycle
\* body
C1_Witness ==
    \E m \in ManualTasks :
        /\ pc[m] = "done" /\ result[m] = "error"
        /\ \E c \in ManualTasks \ {m} : InCycleBody(c)
        /\ is_running

(***************************************************************************)
(* C2.  For every principal p: p is a key of failed_devices if and only if *)
(* exactly one retry job for p is scheduled in the driver.                 *)
(***************************************************************************)
C2_Bijection ==
    \A p \in Principals :
        (p \in DOMAIN failed_devices) <=> (Cardinality(JobsOf(p)) = 1)

(***************************************************************************)
(* C3.  At most one retry job per principal is outstanding at any time,    *)
(* and it is the job of the latest transient failure: a failure recorded   *)
(* while a job for p is scheduled replaces that job.                       *)
(***************************************************************************)
C3_OneRetryJobPerPrincipal ==
    \A p \in Principals :
        /\ Cardinality(JobsOf(p)) <= 1
        /\ p \in DOMAIN failed_devices =>
               \A j \in JobsOf(p) : j = RetryJob(p, failed_devices[p])

\* p has failed transiently in the manual cycle and again in the scheduled
\* cycle: one job, due 5 minutes after the second failure
C3_Witness ==
    \E p \in Principals :
        /\ pc["sched"] = "sleep" /\ cur["sched"].device_id = p
        /\ last["sched"] \in TransientPaths
        /\ DOMAIN store = {p}
        /\ stats.failed_refreshes = 2 /\ stats.invalid_tokens_cleaned = 0
        /\ p \in DOMAIN failed_devices /\ failed_devices[p] = now
        /\ pc[p] = "idle"
        /\ JobsOf(p) = {RetryJob(p, now)}

(***************************************************************************)
(* C4.  Whenever the provider permanently rejects p's refresh token during *)
(* a cycle, after that executor call the store holds no record for p,      *)
(* invalid_tokens_cleaned has grown by exactly 1 and no retry job has been *)
(* scheduled for the failure.                                              *)
(***************************************************************************)
C4_PermanentRejection ==
    [][\A c \in CycleTasks :
         (CycleExecEnds(c) /\ last'[c] \in RejectionPaths) =>
            /\ cur[c].device_id \notin DOMAIN store'
            /\ stats'.invalid_tokens_cleaned = stats.invalid_tokens_cleaned + 1
            /\ jobs' = jobs]_vars

C6_SuccessClearsTracking ==
    \A c \in CycleTasks :
        (pc[c] = "sleep" /\ last[c] = "stored") =>
            cur[c].device_id \notin DOMAIN failed_devices

\* the cycle has refreshed p while p's retry job from an earlier transient
\* failure is still in the job store, so an entry for p existed before
C6_Witness ==
    \E c \in CycleTasks :
        /\ pc[c] = "sleep" /\ last[c] = "stored"
        /\ JobsOf(cur[c].device_id) # {}
        /\ pc[cur[c].device_id] = "idle"
        /\ cur[c].device_id \notin DOMAIN failed_devices

(***************************************************************************)
(* C7.  After a cycle's executor call for p has succeeded, any retry job   *)
(* that was pending for p has been cancelled.                              *)
(***************************************************************************)
C7_SuccessCancelsRetry ==
    \A c \in CycleTasks :
        (pc[c] = "sleep" /\ last[c] = "stored") => JobsOf(cur[c].device_id) = {}

(***************************************************************************)
(* C8.  After a cycle's executor call for p has ended in permanent         *)
(* rejection, p is not in failed_devices and no retry job for p remains    *)
(* scheduled, even when p carried retry tracking from an earlier failure.  *)
(***************************************************************************)
C8_PermanentEndsRetry ==
    \A c \in CycleTasks :
        (pc[c] = "sleep" /\ last[c] \in RejectionPaths) =>
            /\ cur[c].device_id \notin DOMAIN failed_devices
            /\ JobsOf(cur[c].device_id) = {}

(***************************************************************************)
(* C9.  When a retry job for p fires, the credential is read from the      *)
(* store as it is at that moment; if no record exists the invocation ends  *)
(* there: p's failed_devices entry is removed, the executor is not entered *)
(* (no provider call) and the store, the counters and the job store are    *)
(* left as they are.  If a record exists the executor is given the         *)
(* refresh token stored now.                                               *)
(***************************************************************************)
C9_RetryRereads ==
    [][\A p \in Principals :
         (\E ok \in BOOLEAN : RetryReadReturn(p, ok)) =>
            IF p \notin DOMAIN store
            THEN /\ pc'[p] = "done"
                 /\ p \notin DOMAIN failed_devices'
                 /\ store' = store /\ stats' = stats /\ jobs' = jobs
                 /\ pending' = pending
            ELSE pc'[p] = "call" =>
                     cur'[p].refresh_token = store[p].refresh_token]_vars

\* a retry invocation has found no record for its principal
C9_Witness ==
    \E p \in Principals :
        /\ pc[p] = "done" /\ last[p] = "absent"
        /\ p \notin DOMAIN store
        /\ p \notin DOMAIN failed_devices

(***************************************************************************)
(* C10.  The retry path never reschedules itself: no step of a retry       *)
(* invocation adds or changes a retry job, and when the invocation         *)
(* completes, with whatever outcome, p is not in failed_devices.  (The     *)
(* driver's shutdown is not a step of the invocation.)                     *)
(***************************************************************************)
C10_RetryNotRescheduled ==
    [][\A p \in Principals :
         (pc[p] # "idle" /\ pc'[p] # pc[p] /\ ~shutdown_event) =>
            /\ jobs' = jobs
            /\ pc'[p] = "done" => p \notin DOMAIN failed_devices']_vars

\* a retry invocation has failed and returned: no entry, no job for p
C10_Witness ==
    \E p \in Principals :
        /\ pc[p] = "done" /\ last[p] \in TransientPaths
        /\ p \notin DOMAIN failed_devices
        /\ JobsOf(p) = {}

C12_ListFailureRecorded ==
    [][\A c \in CycleTasks :
         (ScanReturn(c, "http_error") \/ ScanReturn(c, "exception")) =>
            /\ ~is_running'
            /\ stats'.last_error # None]_vars

(***************************************************************************)
(* C13.  A manual trigger that arrives while a cycle is Running returns at *)
(* once, without entering the cycle body, and the status of its result is  *)
(* neither "success" nor "error".                                          *)
(***************************************************************************)
C13_AlreadyRunningSignal ==
    [][\A m \in ManualTasks :
         (ManualTrigger(m) /\ is_running) =>
            /\ pc'[m] = "done"
            /\ result'[m] \notin {"success", "error"}]_vars

(***************************************************************************)
(* C14.  An attempt to start a cycle while one is Running, by a firing of  *)
(* the interval job or by a manual trigger, changes nothing: every field   *)
(* of the statistics, failed_devices, the retry jobs, the store and        *)
(* is_running are as before, and the running cycle's position, candidates *)
(* and current executor call are untouched.                                *)
(***************************************************************************)
C14_StartWhileRunningIsNoOp ==
    [][((ScheduledFire \/ \E m \in ManualTasks : ManualTrigger(m)) /\ is_running) =>
          /\ stats' = stats
          /\ failed_devices' = failed_devices
          /\ jobs' = jobs
          /\ store' = store
          /\ is_running' = is_running
          /\ queue' = queue /\ cur' = cur /\ pending' = pending
          /\ \A c \in CycleTasks : InCycleBody(c) => pc'[c] = pc[c]]_vars

\* the interval job has fired during a manual cycle that has already
\* counted a refresh, and has been turned away at the is_running guard
C14_Witness ==
    /\ pc["sched"] = "done" /\ result["sched"] = "skipped"
    /\ InCycleBody("m1")
    /\ is_running
    /\ stats.total_refreshes = 1
    /\ stats.tokens_checked = 2

\* the principals a cycle still has to call the executor for, the one it is
\* calling it for included
Candidates(c) ==
    ({cur[c].device_id} \cup {queue[c][i].device_id : i \in DOMAIN queue[c]}) \ {None}

(***************************************************************************)
(* C15.  When the listing succeeds, a record that has its three fields and *)
(* a readable expiry becomes a candidate of the cycle exactly when its     *)
(* expires_at is at most 45 minutes after the time of the scan; a record   *)
(* that expires exactly 45 minutes later is a candidate.                   *)
(***************************************************************************)
C15_HorizonInclusive ==
    [][\A c \in CycleTasks :
         ScanReturn(c, "ok") =>
            \A p \in DOMAIN store :
               store[p] \notin IncompleteRecords =>
                  (p \in Candidates(c)' <=> store[p].expires_at <= now + 45)]_vars

\* the interval job's scan has just picked p1, whose record expires exactly
\* 45 minutes from now, and left out p2, which expires later
C15_Witness ==
    /\ pc["sched"] = "call"
    /\ cur["sched"].device_id = "p1"
    /\ stats.tokens_checked = 2
    /\ stats.tokens_requiring_refresh = 1
    /\ store["p1"].expires_at = now + 45
    /\ store["p2"].expires_at > now + 45

(***************************************************************************)
(* C16.  A record without an expiry, a refresh token or an access token,   *)
(* or with an expiry that cannot be read, is left alone: no task is ever   *)
(* in an executor call for it, it has no failure record and no retry job,  *)
(* no step changes or deletes it; the scan that meets it still counts      *)
(* every document, still evaluates the other records, and records no error.*)
(***************************************************************************)
C16_IncompleteSkipped ==
    /\ [](\A p \in DOMAIN store :
            store[p] \in IncompleteRecords =>
               /\ \A t \in Tasks : cur[t].device_id # p
               /\ p \notin DOMAIN failed_devices
               /\ JobsOf(p) = {}
               /\ pc[p] = "idle")
    /\ [][\A p \in DOMAIN store :
            store[p] \in IncompleteRecords =>
               /\ p \in DOMAIN store' /\ store'[p] = store[p]
               /\ \A c \in CycleTasks :
                     ScanReturn(c, "ok") =>
                        /\ stats'.tokens_checked = Cardinality(DOMAIN store)
                        /\ stats'.last_error = None
                        /\ \A q \in DOMAIN store :
                              (store[q] \notin IncompleteRecords
                                 /\ store[q].expires_at <= now + 45)
                              => q \in Candidates(c)']_vars

\* a cycle is calling the executor for p2 after its scan skipped p1
C16_Witness ==
    /\ \E c \in CycleTasks : pc[c] = "call" /\ cur[c].device_id = "p2"
    /\ "p1" \in DOMAIN store /\ store["p1"] \in IncompleteRecords
    /\ stats.tokens_checked = 2
    /\ stats.tokens_requiring_refresh = 1
    /\ stats.last_error = None

NonRejectionFailure(t) ==
    \/ \E outcome \in {"timeout", "api_error", "bad_response"} :
          \E expires_in \in ProviderLifetimes : ExecCall(t, outcome, expires_in)
    \/ StoreReturn(t, FALSE)

C19_Original ==
    [][\A t \in Tasks :
         (pc[t] = "store" /\ pc'[t] # "store") =>
            /\ cur[t].device_id \in DOMAIN store'
            /\ store'[cur[t].device_id] = pending[t]]_vars

(***************************************************************************)
(* C19, amended.  When the provider refresh of an executor call for p      *)
(* succeeds, the executor prepares a record with the new access token, the *)
(* new refresh token if the provider supplied one and otherwise the        *)
(* refresh token the call was given, and expires_at equal to the time of   *)
(* the provider call plus the reported lifetime; if the store accepts the  *)
(* write, p's record is exactly that record and no other record changes;   *)
(* if the store refuses the write or it times out unapplied, the store is  *)
(* left as it was.                                                         *)
(***************************************************************************)
C19_RefreshedRecord ==
    [][\A t \in Tasks :
         /\ \A outcome \in {"ok", "ok_rotated"} : \A expires_in \in ProviderLifetimes :
               ExecCall(t, outcome, expires_in) =>
                  /\ pending'[t].access_token = "a1"
                  /\ pending'[t].refresh_token =
                        IF outcome = "ok_rotated" THEN "r1" ELSE cur[t].refresh_token
                  /\ pending'[t].expires_at = now + expires_in
                  /\ store' = store
         /\ StoreReturn(t, TRUE) =>
               /\ DOMAIN store' = DOMAIN store \cup {cur[t].device_id}
               /\ store'[cur[t].device_id] = pending[t]
               /\ \A q \in DOMAIN store \ {cur[t].device_id} : store'[q] = store[q]
         /\ StoreReturn(t, FALSE) => store' = store]_vars

\* the store has just accepted the write of a retry, some time after the
\* provider call returned a rotated refresh token: the stored expiry counts
\* from the provider call, not from the write
C19_Witness ==
    \E p \in Principals :
        /\ pc[p] = "done" /\ last[p] = "stored"
        /\ p \in DOMAIN store
        /\ store[p].access_token = "a1"
        /\ store[p].refresh_token = "r1"
        /\ store[p].expires_at < now + DEFAULT_LIFETIME_MINUTES
        /\ store[p].expires_at >= RETRY_DELAY_MINUTES + DEFAULT_LIFETIME_MINUTES

\* this step ends an executor call of task t
ExecEnds(t) ==
    pc[t] \in {"call", "store", "delete"} /\ pc'[t] \notin {"call", "store", "delete"}

\* no step changes the expires_at of a stored record except the end of an
\* executor call for that principal whose provider refresh had succeeded
ExpiryOnlyAfterRefresh ==
    \A p \in DOMAIN store \cap DOMAIN store' :
        store'[p].expires_at # store[p].expires_at =>
            \E t \in Tasks :
                pc[t] = "store" /\ cur[t].device_id = p /\ ExecEnds(t)

(***************************************************************************)
(* C20.  Original: the expires_at of a stored record changes only in an    *)
(* executor call whose provider refresh succeeded, and an executor call    *)
(* that fails transiently leaves the whole store as it was.                *)
(***************************************************************************)
C20_Original ==
    [][/\ ExpiryOnlyAfterRefresh
       /\ \A t \in Tasks :
             (ExecEnds(t) /\ last'[t] \in TransientPaths) => store' = store]_vars

(***************************************************************************)
(* C20, amended.  The expires_at of a stored record changes only in an     *)
(* executor call whose provider refresh succeeded; an executor call that   *)
(* fails at the provider or at the delete leaves the whole store as it     *)
(* was; one that fails at the store write leaves the store as it was or,   *)
(* when the write timed out after the store applied it, with p's record    *)
(* replaced by the refreshed one and every other record as it was.         *)
(***************************************************************************)
C20_ExpiryOnlyAdvancedByRefresh ==
    [][/\ ExpiryOnlyAfterRefresh
       /\ \A t \in Tasks :
             (ExecEnds(t) /\ last'[t] \in TransientPaths) =>
                IF pc[t] = "store"
                THEN store' \in {store, Put(store, cur[t].device_id, pending[t])}
                ELSE store' = store]_vars

\* a cycle's write has timed out after the store applied it: the call is
\* counted as failed and tracked for a retry, and the record is the new one
C20_Witness ==
    \E c \in CycleTasks :
        /\ pc[c] = "sleep" /\ last[c] = "store_failed"
        /\ cur[c].device_id \in DOMAIN store
        /\ store[cur[c].device_id].access_token = "a1"
        /\ cur[c].device_id \in DOMAIN failed_devices
        /\ stats.successful_refreshes = 0
        /\ stats.retry_attempts = 0

C22_TokensCheckedCountsAll ==
    [][/\ \A c \in CycleTasks :
            ScanReturn(c, "ok") => stats'.tokens_checked = Cardinality(DOMAIN store)
       /\ stats'.tokens_checked # stats.tokens_checked =>
            \E c \in CycleTasks : pc[c] \in {"idle", "scan"} /\ pc'[c] # pc[c]]_vars

\* the interval job's scan has met an unusable document and one that
\* expires too late to be a candidate, and has counted both
C22_Witness ==
    /\ pc["sched"] = "done" /\ result["sched"] = "completed"
    /\ stats.last_run_time = now
    /\ stats.tokens_checked = 2
    /\ stats.tokens_requiring_refresh = 0
    /\ DOMAIN store = Principals
    /\ store["p1"] \in IncompleteRecords
    /\ store["p2"].expires_at > now + EXPIRY_HORIZON_MINUTES

(***************************************************************************)
(* C23.  When stop_scheduler returns after stopping a running driver, no   *)
(* cycle is Running: a cycle in flight, scheduled or manual, has finished  *)
(* before the driver is torn down.                                         *)
(***************************************************************************)
C23_StopWaitsForCycle ==
    [][(shutdown_event /\ scheduler = "running") => ~is_running']_vars

(***************************************************************************)
(* C24.  Stopping the driver cancels every pending retry: the step that    *)
(* stops it leaves no retry job, afterwards no retry job exists in any     *)
(* state (a cycle that is still finishing and meets a transient failure    *)
(* schedules nothing), and no retry invocation starts.                     *)
(***************************************************************************)
C24_StopCancelsRetries ==
    /\ [](scheduler = "none" => jobs = {})
    /\ [][/\ shutdown_event => jobs' = {}
          /\ phase = "shutdown" =>
                \A p \in Principals : pc[p] = "idle" => pc'[p] = "idle"]_vars

\* after the driver was stopped a manual cycle has met a transient failure:
\* the failure is recorded and no retry job exists
C24_Witness ==
    /\ phase = "shutdown" /\ scheduler = "none"
    /\ pc["m1"] = "sleep" /\ last["m1"] \in {"provider_error", "store_failed"}
    /\ cur["m1"].device_id \in DOMAIN failed_devices
    /\ failed_devices[cur["m1"].device_id] = now
    /\ stats.last_run_time < now
    /\ jobs = {}

\* this step is a cycle's Idle -> Running transition
CycleStarts == ~is_running /\ is_running'

\* this step is the end of the cycle body of the Running cycle
CycleEnds == is_running /\ ~is_running'

(***************************************************************************)
(* C25.  last_error, which the status query returns as it is, is the error *)
(* recorded by the most recently started cycle, and empty when that cycle  *)
(* recorded none: the start of a cycle empties it, and only the step that  *)
(* ends the cycle body in the outermost handler sets it.                   *)
(***************************************************************************)
C25_LastErrorOfLatestCycle ==
    [][/\ CycleStarts => stats'.last_error = None
       /\ stats'.last_error # stats.last_error =>
            \/ CycleStarts
            \/ CycleEnds /\ stats'.last_error = MsgCycleFailed]_vars

\* a cycle has started after a cycle that recorded an error (it counted a
\* failure without counting the refresh): the error is no longer reported
C25_Witness ==
    /\ is_running
    /\ stats.last_run_time = now
    /\ stats.last_error = None
    /\ stats.failed_refreshes = 1
    /\ stats.total_refreshes = 0

\* the cumulative counters do not decrease in this step, and the time of
\* the last cycle start does not go back
CumulativeKept ==
    /\ stats'.total_refreshes >= stats.total_refreshes
    /\ stats'.successful_refreshes >= stats.successful_refreshes
    /\ stats'.failed_refreshes >= stats.failed_refreshes
    /\ stats'.invalid_tokens_cleaned >= stats.invalid_tokens_cleaned
    /\ stats'.retry_attempts >= stats.retry_attempts
    /\ stats'.last_run_time >= stats.last_run_time

\* the per-cycle scan counters go down only at the Idle -> Running
\* transition, and there they go to 0
ScanCountersResetAtStart ==
    /\ (stats'.tokens_checked < stats.tokens_checked
          \/ stats'.tokens_requiring_refresh < stats.tokens_requiring_refresh)
        => CycleStarts
    /\ CycleStarts =>
          stats'.tokens_checked = 0 /\ stats'.tokens_requiring_refresh = 0

(***************************************************************************)
(* C26.  Original: the only statistics ever reset are tokens_checked and   *)
(* tokens_requiring_refresh, at the Idle -> Running transition; no other   *)
(* field is reset by any step (a recorded last_error is never emptied),    *)
(* and the cumulative counters never decrease.                             *)
(***************************************************************************)
C26_Original ==
    [][/\ ScanCountersResetAtStart
       /\ CumulativeKept
       /\ stats.last_error # None => stats'.last_error # None]_vars

(***************************************************************************)
(* C26, amended.  The statistics reset are tokens_checked,                 *)
(* tokens_requiring_refresh and last_error, all three at the Idle ->       *)
(* Running transition and nowhere else; no other field is reset by any     *)
(* step, and the cumulative counters never decrease.                       *)
(***************************************************************************)
C26_OnlyRunFieldsReset ==
    [][/\ ScanCountersResetAtStart
       /\ CumulativeKept
       /\ CycleStarts => stats'.last_error = None
       /\ (stats.last_error # None /\ stats'.last_error = None) => CycleStarts]_vars

\* a second cycle has just started after one that refreshed a credential
\* and then recorded an error: the scan counters and last_error are empty,
\* the cumulative counters are kept
C26_Witness ==
    /\ \E c \in CycleTasks : pc[c] = "scan"
    /\ stats.last_run_time = now
    /\ stats.tokens_checked = 0 /\ stats.tokens_requiring_refresh = 0
    /\ stats.last_error = None
    /\ stats.total_refreshes = 1 /\ stats.successful_refreshes = 1
    /\ stats.failed_refreshes = 1

\* the executor's statement as the claim words it: no field of the statistics
\* changes inside the call, invalid_tokens_cleaned included
C27_Original ==
    [][\A t \in Tasks :
         (pc[t] \in {"call", "store", "delete"} /\ pc'[t] # pc[t] /\ ~shutdown_event) =>
            /\ is_running' = is_running
            /\ stats'.invalid_tokens_cleaned = stats.invalid_tokens_cleaned
            /\ stats'.tokens_checked = stats.tokens_checked
            /\ stats'.tokens_requiring_refresh = stats.tokens_requiring_refresh
            /\ stats'.last_run_time = stats.last_run_time
            /\ stats'.last_error = stats.last_error
            /\ ~ExecEnds(t) =>
                  stats' = stats /\ failed_devices' = failed_devices /\ jobs' = jobs
            /\ \A q \in (DOMAIN store \cup DOMAIN store') \ {cur[t].device_id} :
                  q \in DOMAIN store /\ q \in DOMAIN store' /\ store'[q] = store[q]]_vars

(***************************************************************************)
(* C27.  An executor call changes nothing but the store record of its      *)
(* principal and, when it has deleted the record of a rejected token, the  *)
(* counter invalid_tokens_cleaned, which it raises by one.  While it is in *)
(* progress the other statistics, failed_devices, the retry jobs and       *)
(* is_running stay as they are, and the step that ends it changes only     *)
(* what its caller writes (the cycle: successful_refreshes,                *)
(* failed_refreshes, total_refreshes, failed_devices, the retry jobs; the  *)
(* retry: retry_attempts, failed_devices) and no record of another         *)
(* principal.                                                              *)
(***************************************************************************)
C27_ExecutorFrame ==
    [][\A t \in Tasks :
         (pc[t] \in {"call", "store", "delete"} /\ pc'[t] # pc[t] /\ ~shutdown_event) =>
            /\ is_running' = is_running
            /\ stats'.invalid_tokens_cleaned =
                  stats.invalid_tokens_cleaned + (IF DeleteReturn(t, TRUE) THEN 1 ELSE 0)
            /\ stats'.tokens_checked = stats.tokens_checked
            /\ stats'.tokens_requiring_refresh = stats.tokens_requiring_refresh
            /\ stats'.last_run_time = stats.last_run_time
            /\ stats'.last_error = stats.last_error
            /\ ~ExecEnds(t) =>
                  stats' = stats /\ failed_devices' = failed_devices /\ jobs' = jobs
            /\ \A q \in (DOMAIN store \cup DOMAIN store') \ {cur[t].device_id} :
                  q \in DOMAIN store /\ q \in DOMAIN store' /\ store'[q] = store[q]]_vars

\* an executor call has deleted the record of a rejected token and counted it
C27_Witness ==
    \E t \in Tasks :
        /\ last[t] = "deleted"
        /\ stats.invalid_tokens_cleaned = 1
        /\ stats.failed_refreshes + stats.retry_attempts >= 1

\* C28: the periodic job's missed fire times are coalesced and a late run is
\* dropped.  One firing of the interval job consumes every fire time that has
\* passed: afterwards the next fire time lies in the future, on the grid of
\* 15 minutes, so that however many fire times were missed at most one
\* catch-up cycle starts.  The run stands for the latest missed fire time; when
\* the driver reaches it more than 5 minutes after that time no cycle starts
\* and the run is reported missed, and within 5 minutes the cycle starts
\* (when none is Running).
C28_CoalescedAndGrace ==
    [][ScheduledFire =>
         LET run_time == next_run' - INTERVAL_MINUTES
         IN  /\ next_run <= run_time
             /\ run_time <= now
             /\ now < next_run'
             /\ (run_time - next_run) % INTERVAL_MINUTES = 0
             /\ now - run_time > MISFIRE_GRACE_MINUTES =>
                   /\ UNCHANGED <<is_running, stats, pc>>
                   /\ pc["sched"] = "idle" => result'["sched"] = "missed"
             /\ (now - run_time <= MISFIRE_GRACE_MINUTES
                    /\ pc["sched"] = "idle" /\ ~is_running) =>
                   /\ CycleStarts
                   /\ pc'["sched"] = "scan"
                   /\ stats'.last_run_time = now]_vars

\* two fire times have passed and the single catch-up cycle is running, the
\* first scheduled cycle of this process: the next fire time is the third
C28_Witness ==
    /\ now >= 2 * INTERVAL_MINUTES
    /\ now - 2 * INTERVAL_MINUTES <= MISFIRE_GRACE_MINUTES
    /\ next_run = 3 * INTERVAL_MINUTES
    /\ pc["sched"] = "scan"
    /\ stats.last_run_time = now
    /\ stats.total_refreshes = 0
    /\ "p1" \in DOMAIN store
    /\ result["sched"] = None

\* the statement as the claim words it: every such request is answered 404
C29_Original ==
    [][/\ \A u \in RouteIds :
            (Validated[u] /\ delete_spotify_tokens(u, TRUE)) =>
               /\ u \notin DOMAIN store'
               /\ result'["client"] = Response("delete", u, "200")
       /\ (/\ pc["get"] \in {"read_expiry", "read_tokens"}
           /\ pc'["get"] # pc["get"]
           /\ cur["get"].device_id \notin DOMAIN store) =>
              /\ pc'["get"] = "idle"
              /\ result'["client"] = Response("get", cur["get"].device_id, "404")
              /\ store' = store]_vars

\* C29: after a delete through the route the user has no token.  A delete
\* request that the store carries out leaves no record of the user and is
\* answered 200.  While the store holds no record of the user, a get request
\* that reads the store ends there: it is answered 404, or 500 when the read
\* itself fails, it does not go on to the provider and it writes nothing.
C29_NoTokenAfterDelete ==
    [][/\ \A u \in RouteIds :
            (Validated[u] /\ delete_spotify_tokens(u, TRUE)) =>
               /\ u \notin DOMAIN store'
               /\ result'["client"] = Response("delete", u, "200")
       /\ (/\ pc["get"] \in {"read_expiry", "read_tokens"}
           /\ pc'["get"] # pc["get"]
           /\ cur["get"].device_id \notin DOMAIN store) =>
              /\ pc'["get"] = "idle"
              /\ \E status \in {"404", "500"} :
                    result'["client"] = Response("get", cur["get"].device_id, status)
              /\ store' = store]_vars

\* p1, who had a record, has none after a delete, and the latest response is
\* the 404 of a get request for p1
C29_Witness ==
    /\ "p1" \notin DOMAIN store
    /\ result["client"] = Response("get", "p1", "404")
    /\ pc["get"] = "idle"

\* C30: a request with an id that is shorter than 20 or longer than 36
\* characters, or that has a character outside a-z, A-Z, 0-9, is answered 400
\* by the store, get, delete and refresh routes, and the handler ends there:
\* the store is unchanged and no read, write or provider call is begun.
C30_InvalidIdRejected ==
    [][\A u \in RouteIds :
         LET user_id == Text(u)
         IN  (/\ \/ Len(user_id) < USER_ID_MIN_LENGTH
                 \/ Len(user_id) > USER_ID_MAX_LENGTH
                 \/ \E i \in 1..Len(user_id) : user_id[i] \notin AlnumChars
              /\ \/ \E expires_in \in ClientLifetimes : \E ok \in BOOLEAN :
                       store_spotify_tokens(u, expires_in, ok)
                 \/ \E ok \in BOOLEAN : delete_spotify_tokens(u, ok)
                 \/ get_spotify_token(u)
                 \/ refresh_spotify_token(u)) =>
                /\ result'["client"].status = "400"
                /\ store' = store
                /\ pc' = pc]_vars

\* C31: the executor calls of a cycle are strictly sequential.  No two cycle
\* tasks are inside an executor call together.  A call of a cycle starts only
\* when the scan returns (the first candidate) or when the sleep of 1 second
\* returns (the next candidate), and then the previous call has returned and
\* its bookkeeping is done; and a call that returns always leads the cycle
\* into the sleep, with the candidate counted in total_refreshes.
C31_SequentialCalls ==
    /\ [](\A c1, c2 \in CycleTasks :
            (c1 # c2 /\ pc[c1] \in {"call", "store", "delete"}) =>
               pc[c2] \notin {"call", "store", "delete"})
    /\ [][\A c \in CycleTasks :
            /\ (pc'[c] = "call" /\ pc[c] # "call") =>
                  \/ \E listing \in {"ok"} : ScanReturn(c, listing)
                  \/ SleepReturn(c) /\ last[c] # None /\ cur'[c] = Head(queue[c])
            /\ (pc[c] \in {"call", "store", "delete"}
                  /\ pc'[c] \notin {"call", "store", "delete"} /\ ~shutdown_event) =>
                  /\ pc'[c] = "sleep"
                  /\ last'[c] # None
                  /\ stats'.total_refreshes = stats.total_refreshes + 1]_vars

\* the call for the second candidate of a cycle is in flight, after the
\* first candidate was counted
C31_Witness ==
    \E c \in CycleTasks :
        /\ pc[c] = "call"
        /\ cur[c].device_id = "p2"
        /\ queue[c] = <<>>
        /\ stats.tokens_requiring_refresh = 2
        /\ stats.total_refreshes >= 1

\* C32: the entry of failed_devices and the retry job of a principal change
\* in one step.  While a driver exists, the step that writes p's entry leaves
\* exactly one retry job of p, the one due 5 minutes later; a retry job of p
\* appears only in a step that writes p's entry with the same time, and that
\* step leaves no older job of p beside it; so no state shows the entry
\* without the job, the job without the entry, or p without a job between
\* the removal of the old one and the arrival of the new one.
C32_EntryAndTimerTogether ==
    [][\A p \in Principals :
         /\ (/\ scheduler = "running"
             /\ p \in DOMAIN failed_devices'
             /\ p \notin DOMAIN failed_devices \/ failed_devices'[p] # failed_devices[p]) =>
                JobsOf(p)' = {RetryJob(p, now)}
         /\ JobsOf(p)' \ JobsOf(p) # {} =>
                /\ p \in DOMAIN failed_devices'
                /\ failed_devices'[p] = now
                /\ JobsOf(p)' = {RetryJob(p, now)}
                /\ \E c \in CycleTasks : CycleExecEnds(c) /\ cur[c].device_id = p]_vars

\* the second failure of p1 has replaced the retry job of its first failure
C32_Witness ==
    /\ DOMAIN store = {"p1"}
    /\ stats.failed_refreshes >= 2
    /\ now >= INTERVAL_MINUTES
    /\ "p1" \in DOMAIN failed_devices
    /\ failed_devices["p1"] = now
    /\ jobs = {RetryJob("p1", now)}
    /\ \E c \in CycleTasks : pc[c] = "sleep" /\ cur[c].device_id = "p1"

C34_OneCallPerPrincipal ==
    \A t1, t2 \in Tasks :
        (/\ t1 # t2
         /\ pc[t1] \in {"call", "store", "delete"}
         /\ pc[t2] \in {"call", "store", "delete"}) =>
            cur[t1].device_id # cur[t2].device_id

\* C35: the scheduler does not re-create a deleted record.  When a store
\* write of an executor call (of a cycle or of a retry) is carried out, the
\* store holds a record of that principal: a record that the delete route
\* removed after the scan or the retry's read does not come back.
C35_NoWriteWithoutRecord ==
    [][\A t \in Tasks :
         StoreReturn(t, TRUE) => cur[t].device_id \in DOMAIN store]_vars

\* C36: the stored refresh token is the one the provider accepts.  When the
\* provider has answered an executor call with a new refresh token, the call
\* ends with that token in the principal's record (if it has one), so that a
\* later attempt, which reads the record, presents it and not the token it
\* superseded.
C36_StoredTokenCurrent ==
    [][\A t \in Tasks :
         (/\ pc[t] = "store"
          /\ pc'[t] # "store"
          /\ ~shutdown_event
          /\ pending[t].refresh_token # cur[t].refresh_token
          /\ cur[t].device_id \in DOMAIN store') =>
            store'[cur[t].device_id].refresh_token = pending[t].refresh_token]_vars

\* A retry job is added without misfire_grace_time, so the driver's default of
\* one second applies: a date job that the driver gets to later than that
\* (the loop was busy in a synchronous provider call, or the host was asleep)
\* is reported as missed and dropped without running _retry_single_device.
RetryMissed(p) ==
    /\ LoopFree
    /\ scheduler = "running"
    /\ \E j \in JobsOf(p) :
          /\ j.run_date < now
          /\ jobs' = jobs \ {j}
    /\ UNCHANGED <<now, phase, next_run, scheduler, is_running, stats,
                   failed_devices, store, pc, queue, cur, pending, last, result>>

NextRetryMissed == Next \/ \E p \in Principals : RetryMissed(p)

\* a running driver gets to every due retry job: it runs it or reports it missed
DriverFairness ==
    \A p \in Principals : WF_vars(RetryFire(p) \/ RetryMissed(p))

\* every await returns and the driver processes its due jobs
SpecRetryMissed ==
    InitSuspended /\ [][NextRetryMissed]_vars /\ Fairness /\ DriverFairness

C38_EntryEventuallyRemoved ==
    \A p \in Principals :
       (p \in DOMAIN failed_devices) ~>
          \/ p \notin DOMAIN failed_devices
          \/ scheduler # "running"
          \/ \E j \in JobsOf(p) : j.run_date > now
          \/ p \in DOMAIN store

\* C39: a retry invocation leaves the refresh counters of the cycles alone.
\* No step of _retry_single_device for p changes total_refreshes,
\* successful_refreshes, failed_refreshes, tokens_checked or
\* tokens_requiring_refresh; retry_attempts grows by exactly 1 in the step in
\* which the retried refresh returns after its store write, and stays as it is
\* in every other step: when the refresh raised, when the record was absent
\* or could not be read, and while the invocation is suspended.
C39_RetryCounters ==
    [][\A p \in Principals :
         (pc'[p] # pc[p] /\ ~shutdown_event) =>
            /\ stats'.total_refreshes = stats.total_refreshes
            /\ stats'.successful_refreshes = stats.successful_refreshes
            /\ stats'.failed_refreshes = stats.failed_refreshes
            /\ stats'.tokens_checked = stats.tokens_checked
            /\ stats'.tokens_requiring_refresh = stats.tokens_requiring_refresh
            /\ stats'.retry_attempts =
                  IF pc[p] = "store" /\ last'[p] = "stored"
                  THEN stats.retry_attempts + 1
                  ELSE stats.retry_attempts]_vars

\* a retry has just returned from a successful refresh after the one failure
\* of a cycle
C39_Witness ==
    \E p \in Principals :
       /\ pc[p] = "done" /\ last[p] = "stored"
       /\ stats.retry_attempts = 1
       /\ stats.total_refreshes = 1
       /\ stats.failed_refreshes = 1
       /\ stats.successful_refreshes = 0

====
